---- MODULE Spec2Model ----
(***************************************************************************)
(* Model of install.py, the PySVN installer: a linear script that resolves *)
(* a version, downloads and extracts a source archive, patches setup.py    *)
(* and runs the build/install subprocess.                                  *)
(*                                                                         *)
(* Path strings are sequences of one-character strings, so that            *)
(* os.path.commonprefix (a character-wise prefix) and os.path.abspath (a   *)
(* component-wise normalisation) are modelled by what they compute.        *)
(***************************************************************************)
EXTENDS Integers, Sequences, FiniteSets, TLC

VARIABLES
    pc,            \* position of the script
    args,          \* argparse namespace: file, pysvn_version, build_only
    cwd,           \* module global cwd (install.py:56)
    temp_path,     \* module global temp_path (install.py:57)
    proc_cwd,      \* the process's working directory (os.getcwd())
    registered,    \* atexit.register(destroy_temp) has been called
    temp_exists,   \* the temporary directory exists on disk
    fs,            \* files currently on disk (absolute normalised paths)
    written,       \* every file path the run has ever written
    net,           \* network operations performed, in order
    log,           \* pipeline steps started, in order
    pysvn_version, \* local pysvn_version of main()
    tarball_path,  \* local tarball_path of main()
    src_path,      \* local src_path of main()
    rejected,      \* the path-traversal guard raised
    checked,       \* members the guard loop of safe_extract has examined
    setup_py,      \* content of setup.py: "absent", "marker", "nomarker", "patched"
    rewrites,      \* times the script has written setup.py
    config_args,   \* the config_args list of build_pysvn
    cmds,          \* build/install subprocess command lines run, in order
    retcode,       \* result of subprocess.call
    stderr,        \* diagnostics written to standard error
    failed,        \* a step has failed (sys.exit(1) or uncaught exception)
    exit_code,     \* exit status of the process
    env            \* platform environment seen by build_pysvn

vars == <<pc, args, cwd, temp_path, proc_cwd, registered, temp_exists, fs,
          written, net, log, pysvn_version, tarball_path, src_path, rejected,
          checked, setup_py, rewrites, config_args, cmds, retcode, stderr,
          failed, exit_code, env>>

(***************************************************************************)
(* Bounds                                                                  *)
(***************************************************************************)
MaxMembers == 3      \* members per archive
MaxRetcode == 2      \* build subprocess exit codes are 0..MaxRetcode

(***************************************************************************)
(* Strings                                                                 *)
(***************************************************************************)
None == <<>>                     \* Python None / empty string: both falsy
SEP == "/"
DOTDOT == <<".", ".">>
DOT == <<".">>

TempDir == <<"/", "t">>          \* result of tempfile.mkdtemp
StartDir == <<"/", "w">>         \* working directory at start-up
LocalTarball == <<"/", "w", "/", "f">>
TarballName == <<"z">>           \* 'pysvn.tar.gz'

\* Archive member names.  "p" stands for a 'pysvn-<version>' directory, "s"
\* for 'setup.py', "I" for 'Import', "c" for a 'pycxx-<version>' directory.
M_SETUP == <<"p", "/", "s">>
M_PYCXX == <<"p", "/", "I", "/", "c">>
M_OTHER == <<"x">>
M_DOTDOT == <<".", ".", "/", "e">>
M_SIBLING == <<".", ".", "/", "t", "e", "/", "x">>
M_ABS == <<"/", "e">>
MemberNames == {M_SETUP, M_PYCXX, M_OTHER, M_DOTDOT, M_SIBLING, M_ABS}

RECURSIVE SeqsUpTo(_, _)
SeqsUpTo(S, n) ==
    IF n = 0 THEN {<<>>}
    ELSE LET shorter == SeqsUpTo(S, n - 1)
         IN shorter \cup {Append(s, x) : s \in {t \in shorter : Len(t) = n - 1}, x \in S}

Archives == SeqsUpTo(MemberNames, MaxMembers)

(***************************************************************************)
(* os.path                                                                 *)
(***************************************************************************)
IsAbs(p) == Len(p) > 0 /\ p[1] = SEP

\* os.path.join(a, b)
PathJoin(a, b) ==
    IF IsAbs(b) THEN b
    ELSE IF a = <<>> \/ a[Len(a)] = SEP THEN a \o b
    ELSE a \o <<SEP>> \o b

\* p.split('/')
RECURSIVE SplitSep(_, _, _)
SplitSep(p, i, cur) ==
    IF i > Len(p) THEN <<cur>>
    ELSE IF p[i] = SEP THEN <<cur>> \o SplitSep(p, i + 1, <<>>)
    ELSE SplitSep(p, i + 1, Append(cur, p[i]))

\* the component loop of posixpath.normpath for an absolute path
RECURSIVE NormComps(_, _, _)
NormComps(comps, i, acc) ==
    IF i > Len(comps) THEN acc
    ELSE LET c == comps[i] IN
         IF c = <<>> \/ c = DOT THEN NormComps(comps, i + 1, acc)
         ELSE IF c = DOTDOT
              THEN NormComps(comps, i + 1,
                             IF Len(acc) = 0 THEN acc
                             ELSE SubSeq(acc, 1, Len(acc) - 1))
         ELSE NormComps(comps, i + 1, Append(acc, c))

RECURSIVE JoinComps(_)
JoinComps(comps) ==
    IF Len(comps) = 0 THEN <<>>
    ELSE <<SEP>> \o comps[1] \o JoinComps(Tail(comps))

Components(p) == NormComps(SplitSep(p, 1, <<>>), 1, <<>>)

\* os.path.abspath(p) in a process whose working directory is wd
AbsPath(wd, p) ==
    LET comps == Components(PathJoin(wd, p))
    IN IF Len(comps) = 0 THEN <<SEP>> ELSE JoinComps(comps)

\* os.path.commonprefix([a, b]): the longest common leading run of characters
RECURSIVE CommonPrefixFrom(_, _, _)
CommonPrefixFrom(a, b, i) ==
    IF i > Len(a) \/ i > Len(b) \/ a[i] /= b[i] THEN SubSeq(a, 1, i - 1)
    ELSE CommonPrefixFrom(a, b, i + 1)

CommonPrefix(a, b) == CommonPrefixFrom(a, b, 1)

\* component-wise containment: f is dir itself or lies below it
IsPrefixSeq(s, t) == Len(s) <= Len(t) /\ SubSeq(t, 1, Len(s)) = s
Under(dir, f) == IsPrefixSeq(Components(dir), Components(f))

(***************************************************************************)
(* extract_pysvn: the path-traversal guard and the extraction              *)
(***************************************************************************)
\* is_within_directory(directory, target), evaluated with working directory wd
is_within_directory(wd, directory, target) ==
    LET abs_directory == AbsPath(wd, directory)
        abs_target == AbsPath(wd, target)
        prefix == CommonPrefix(abs_directory, abs_target)
    IN prefix = abs_directory

\* the members the guard loop of safe_extract raises on
Offending(wd, path, members) ==
    {i \in 1..Len(members) :
        ~is_within_directory(wd, path, PathJoin(path, members[i]))}

Min(S) == CHOOSE x \in S : \A y \in S : x <= y

\* tar.extractall(path): each member is written at os.path.join(path, name),
\* which the file system resolves component by component
ExtractAll(wd, path, members) ==
    {AbsPath(wd, PathJoin(path, members[i])) : i \in 1..Len(members)}

\* faulty variant: each member is extracted as soon as it has passed the guard
safe_extract_Interleaved(wd, path, members) ==
    LET bad == Offending(wd, path, members)
    IN IF bad /= {}
       THEN [raised |-> TRUE, checked |-> Min(bad),
             files |-> ExtractAll(wd, path, SubSeq(members, 1, Min(bad) - 1))]
       ELSE [raised |-> FALSE, checked |-> Len(members),
             files |-> ExtractAll(wd, path, members)]

\* safe_extract(tar, path): whether the guard raised, how many members its
\* loop examined, and the files written
safe_extract(wd, path, members) ==
    LET bad == Offending(wd, path, members)
    IN IF bad /= {}
       THEN [raised |-> TRUE, checked |-> Min(bad), files |-> {}]
       ELSE [raised |-> FALSE, checked |-> Len(members),
             files |-> ExtractAll(wd, path, members)]

\* glob.glob(os.path.join(dir, ch + '*')): the entries directly in dir whose
\* name starts with ch, as paths
Glob(files, dir, ch) ==
    LET n == Len(Components(dir))
    IN {JoinComps(SubSeq(Components(f), 1, n + 1)) :
          f \in {g \in files : /\ Under(dir, g)
                               /\ Len(Components(g)) > n
                               /\ Components(g)[n + 1][1] = ch}}

\* shutil.rmtree(dir): what is left of the files
RmTree(files, dir) == {f \in files : ~Under(dir, f)}

(***************************************************************************)
(* build_pysvn: the platform environment                                   *)
(***************************************************************************)
XcodeAprPath == <<"Library", "Developer", "CommandLineTools", "SDKs",
                  "MacOSX.sdk", "usr", "include", "apr-1">>
BitnamiAprConfig == <<"opt", "bitnami", "apache", "bin", "apr-1-config">>
BitnamiApuConfig == <<"opt", "bitnami", "apache", "bin", "apu-1-config">>
BitnamiSvnBin == <<"opt", "bitnami", "subversion", "bin">>
BitnamiSvnLib == <<"opt", "bitnami", "subversion", "lib">>
BitnamiSvnInclude == <<"opt", "bitnami", "subversion", "include", "subversion-1">>
ArchDirCandidates == << <<"usr", "lib", "arch">>, <<"usr", "local", "lib", "arch">> >>

\* what the external tools print
AprIncludedir == <<"apr-includedir">>   \* apr-1-config --includedir
AprPrefix == <<"apr-prefix">>           \* apr-1-config --prefix
ApuIncludedir == <<"apu-includedir">>   \* apu-1-config --includedir

BrewPackages == {"subversion", "apr", "apr-util"}

\* get_brew_prefix(package): the prefix, or None
get_brew_prefix(e, package) ==
    IF package \in e.brewFound THEN <<"brew", package>> ELSE None

Exists(e, path) == path \in e.exists

RECURSIVE FilterSeq(_, _)
FilterSeq(s, keep) ==
    IF Len(s) = 0 THEN <<>>
    ELSE (IF s[1] \in keep THEN <<s[1]>> ELSE <<>>) \o FilterSeq(Tail(s), keep)

\* get_linux_arch_dirs()
get_linux_arch_dirs(e) ==
    IF e.gcc /= "ok" THEN <<>>
    ELSE FilterSeq(ArchDirCandidates, e.exists)

\* lines 232-300: the platform branches
PlatformPaths(e) ==
    LET empty == [apr_inc |-> <<>>, apr_lib |-> <<>>, apu_inc |-> <<>>,
                  svn_bin |-> <<>>, svn_inc |-> <<>>, svn_lib |-> <<>>,
                  apr_config_path |-> None, apu_config_path |-> None,
                  libapr_filename |-> "", libsvn_client_filename |-> "",
                  flags |-> <<>>]
    IN
    IF e.system = "Darwin" THEN
        LET brew_svn_path == get_brew_prefix(e, "subversion")
            brew_apr_path == get_brew_prefix(e, "apr")
            brew_apr_util_path == get_brew_prefix(e, "apr-util")
            svn == brew_svn_path /= None /\ Exists(e, brew_svn_path)
        IN [empty EXCEPT
              !.libapr_filename = "libapr-1.dylib",
              !.libsvn_client_filename = "libsvn_client-1.a",
              !.flags = << <<"--link-python-framework-via-dynamic-lookup">> >>,
              !.apr_config_path =
                  IF brew_apr_path /= None
                  THEN brew_apr_path \o <<"bin", "apr-1-config">> ELSE None,
              !.apu_config_path =
                  IF brew_apr_util_path /= None
                  THEN brew_apr_util_path \o <<"bin", "apu-1-config">> ELSE None,
              !.svn_bin = IF svn THEN <<brew_svn_path \o <<"bin">> >> ELSE <<>>,
              !.svn_inc = IF svn
                          THEN <<brew_svn_path \o <<"include", "subversion-1">> >>
                          ELSE <<>>,
              !.svn_lib = IF svn THEN <<brew_svn_path \o <<"lib">> >> ELSE <<>>,
              !.apr_inc = <<XcodeAprPath>>,
              !.apu_inc = <<XcodeAprPath>>]
    ELSE IF e.system = "Linux" THEN
        IF e.user = "bitnami" THEN
            [empty EXCEPT
              !.libapr_filename = "libapr-1.so",
              !.libsvn_client_filename = "libsvn_client-1.so",
              !.apr_config_path = BitnamiAprConfig,
              !.apu_config_path = BitnamiApuConfig,
              !.svn_bin = <<BitnamiSvnBin>>,
              !.svn_lib = <<BitnamiSvnLib>>,
              !.svn_inc = <<BitnamiSvnInclude>>]
        ELSE
            [empty EXCEPT
              !.libapr_filename = "libapr-1.so",
              !.libsvn_client_filename = "libsvn_client-1.so",
              !.apr_lib = get_linux_arch_dirs(e),
              !.svn_lib = get_linux_arch_dirs(e)]
    ELSE empty

HasAprConfig(e, p) == p.apr_config_path /= None /\ Exists(e, p.apr_config_path)
HasApuConfig(e, p) == p.apu_config_path /= None /\ Exists(e, p.apu_config_path)

\* faulty variant: the tool's include directory is appended
AprIncludePaths_Append(e, p) ==
    IF HasAprConfig(e, p) THEN Append(p.apr_inc, AprIncludedir) ELSE p.apr_inc

\* lines 304-308: extra_apr_include_paths.insert(0, <includedir>)
AprIncludePaths(e, p) ==
    IF HasAprConfig(e, p) THEN <<AprIncludedir>> \o p.apr_inc ELSE p.apr_inc

\* lines 310-315: extra_apr_lib_paths.append(<prefix>/lib)
AprLibPaths(e, p) ==
    IF HasAprConfig(e, p) THEN Append(p.apr_lib, AprPrefix \o <<"lib">>)
    ELSE p.apr_lib

\* lines 317-321: extra_apu_include_paths.insert(0, <includedir>)
ApuIncludePaths(e, p) ==
    IF HasApuConfig(e, p) THEN <<ApuIncludedir>> \o p.apu_inc ELSE p.apu_inc

\* the six search lists after lines 302-321
SearchPaths(e) ==
    LET p == PlatformPaths(e)
    IN [p EXCEPT !.apr_inc = AprIncludePaths(e, p),
                 !.apr_lib = AprLibPaths(e, p),
                 !.apu_inc = ApuIncludePaths(e, p)]

\* one "for path in paths: if exists(join(path, file)): append; break" loop
RECURSIVE FirstWith(_, _, _, _)
FirstWith(e, paths, file, flag) ==
    IF Len(paths) = 0 THEN <<>>
    ELSE IF Exists(e, paths[1] \o <<file>>) THEN << <<flag, paths[1]>> >>
    ELSE FirstWith(e, Tail(paths), file, flag)

\* lines 230-360: config_args
ConfigArgs(e, pycxx_path) ==
    LET p == SearchPaths(e)
    IN << <<"--pycxx-dir", pycxx_path>> >>
       \o p.flags
       \o FirstWith(e, p.apr_inc, "apr.h", "--apr-inc-dir")
       \o (IF p.libapr_filename /= ""
           THEN FirstWith(e, p.apr_lib, p.libapr_filename, "--apr-lib-dir")
           ELSE <<>>)
       \o FirstWith(e, p.apu_inc, "apu.h", "--apu-inc-dir")
       \o FirstWith(e, p.svn_bin, "svn", "--svn-bin-dir")
       \o FirstWith(e, p.svn_inc, "svn_client.h", "--svn-inc-dir")
       \o (IF p.libsvn_client_filename /= ""
           THEN FirstWith(e, p.svn_lib, p.libsvn_client_filename, "--svn-lib-dir")
           ELSE <<>>)

\* a subprocess the script starts without catching OSError is not installed
EnvRaises(e) ==
    \/ e.system = "Darwin" /\ e.brew = "missing"
    \/ e.system = "Linux" /\ e.user /= "bitnami" /\ e.gcc = "missing"

(***************************************************************************)
(* The environments build_pysvn may run in                                 *)
(***************************************************************************)
SeqRange(s) == {s[i] : i \in 1..Len(s)}

\* the files the search loops of ConfigArgs look for, given the directories
CandidateFiles(e) ==
    LET p == SearchPaths(e)
        In(paths, file) == {d \o <<file>> : d \in SeqRange(paths)}
    IN In(p.apr_inc, "apr.h") \cup In(p.apr_lib, p.libapr_filename)
       \cup In(p.apu_inc, "apu.h") \cup In(p.svn_bin, "svn")
       \cup In(p.svn_inc, "svn_client.h")
       \cup In(p.svn_lib, p.libsvn_client_filename)

BaseEnv == [system |-> "Other", user |-> "user", brew |-> "ok",
            brewFound |-> {}, gcc |-> "ok", exists |-> {}]

DarwinBases ==
    {[BaseEnv EXCEPT !.system = "Darwin", !.brew = "missing"]} \cup
    {[BaseEnv EXCEPT !.system = "Darwin", !.brewFound = bf, !.exists = ex] :
        bf \in SUBSET BrewPackages,
        ex \in SUBSET { <<"brew", "subversion">>,
                        <<"brew", "apr", "bin", "apr-1-config">>,
                        <<"brew", "apr-util", "bin", "apu-1-config">> }}

LinuxBases ==
    {[BaseEnv EXCEPT !.system = "Linux", !.user = "bitnami", !.exists = ex] :
        ex \in SUBSET {BitnamiAprConfig, BitnamiApuConfig}} \cup
    {[BaseEnv EXCEPT !.system = "Linux", !.gcc = g] : g \in {"missing", "fail"}} \cup
    {[BaseEnv EXCEPT !.system = "Linux", !.exists = ex] :
        ex \in SUBSET SeqRange(ArchDirCandidates)}

\* a path below a brew prefix exists only if brew reported that prefix
Consistent(e) ==
    \A d \in e.exists : d[1] = "brew" => d[2] \in e.brewFound

Bases == {e \in DarwinBases \cup LinuxBases \cup {BaseEnv} : Consistent(e)}

Envs ==
    UNION {{[b EXCEPT !.exists = b.exists \cup fl] :
              fl \in SUBSET CandidateFiles(b)} : b \in Bases}

(***************************************************************************)
(* main(): inputs                                                          *)
(***************************************************************************)
NoVersion == ""                  \* --pysvn-version absent or empty: falsy
RemappedFrom == "1.9.13"
RemappedTo == "1.9.12"
Versions == {RemappedFrom, RemappedTo, "1.9.22"}

NoEnv == [system |-> "unset"]

\* the namespaces parser.parse_args() can return
ArgSets == [file : {None, LocalTarball},
            pysvn_version : {NoVersion, RemappedFrom, "1.9.22"},
            build_only : BOOLEAN]

NoArgs == [file |-> None, pysvn_version |-> NoVersion, build_only |-> FALSE]

Init ==
    /\ pc = "parse_args"
    /\ args = NoArgs
    /\ cwd = None
    /\ temp_path = None
    /\ proc_cwd = StartDir
    /\ registered = FALSE
    /\ temp_exists = FALSE
    /\ fs = {}
    /\ written = {}
    /\ net = <<>>
    /\ log = <<>>
    /\ pysvn_version = NoVersion
    /\ tarball_path = None
    /\ src_path = None
    /\ rejected = FALSE
    /\ checked = 0
    /\ setup_py = "absent"
    /\ rewrites = 0
    /\ config_args = <<>>
    /\ cmds = <<>>
    /\ retcode = 0
    /\ stderr = {}
    /\ failed = FALSE
    /\ exit_code = 0
    /\ env = NoEnv

(***************************************************************************)
(* Leaving the script                                                      *)
(***************************************************************************)
\* faulty variant: a failure is reported but the step is entered again
Die_Retry(msg) ==
    /\ stderr' = stderr \cup {msg}
    /\ failed' = TRUE
    /\ exit_code' = 1
    /\ pc' = pc

\* sys.exit(1) after a diagnostic on standard error
Die(msg) ==
    /\ stderr' = stderr \cup {msg}
    /\ failed' = TRUE
    /\ exit_code' = 1
    /\ pc' = "atexit"

\* an exception nothing catches: traceback on standard error, exit status 1
Raise ==
    /\ stderr' = stderr \cup {"traceback"}
    /\ failed' = TRUE
    /\ exit_code' = 1
    /\ pc' = "atexit"

(***************************************************************************)
(* main(), lines 386-405                                                   *)
(***************************************************************************)
\* parser.parse_args(): -h/--help prints the help and exits 0, a command line
\* it cannot parse exits 2, otherwise the namespace is returned
ParseArgs ==
    /\ pc = "parse_args"
    /\ \E outcome \in {"help", "usage_error", "ok"} :
         IF outcome = "ok"
         THEN /\ \E a \in ArgSets : args' = a
              /\ pc' = "mkdtemp"
              /\ UNCHANGED <<stderr, failed, exit_code>>
         ELSE /\ pc' = "atexit"
              /\ exit_code' = (IF outcome = "help" THEN 0 ELSE 2)
              /\ failed' = (outcome /= "help")
              /\ stderr' = (IF outcome = "help" THEN stderr
                            ELSE stderr \cup {"usage"})
              /\ UNCHANGED args
    /\ UNCHANGED <<cwd, temp_path, proc_cwd, registered, temp_exists, fs,
                   written, net, log, pysvn_version, tarball_path, src_path,
                   rejected, checked, setup_py, rewrites, config_args, cmds,
                   retcode, env>>

\* cwd = os.getcwd(); temp_path = mkdtemp(); atexit.register(destroy_temp)
MakeTemp ==
    /\ pc = "mkdtemp"
    /\ cwd' = proc_cwd
    /\ temp_path' = TempDir
    /\ temp_exists' = TRUE
    /\ registered' = TRUE
    /\ pc' = "resolve"
    /\ UNCHANGED <<args, proc_cwd, fs, written, net, log, pysvn_version,
                   tarball_path, src_path, rejected, checked, setup_py,
                   rewrites, config_args, cmds, retcode, stderr, failed,
                   exit_code, env>>

(***************************************************************************)
(* main(), lines 407-426                                                   *)
(***************************************************************************)
\* faulty variant: a version override wins over a local file
UsesLocalFile_VersionFirst(a) == a.file /= None /\ a.pysvn_version = NoVersion

\* "if args.file:"
UsesLocalFile(a) == a.file /= None

\* "if args.pysvn_version:" in the else branch
UsesGivenVersion(a) == ~UsesLocalFile(a) /\ a.pysvn_version /= NoVersion

\* lines 407-412: the local tarball, which may or may not exist
LocalFile ==
    /\ pc = "resolve"
    /\ UsesLocalFile(args)
    /\ tarball_path' = args.file
    /\ \E exists \in BOOLEAN :
         IF exists
         THEN /\ pc' = "extract"
              /\ UNCHANGED <<stderr, failed, exit_code>>
         ELSE Die("no_tarball")
    /\ UNCHANGED <<args, cwd, temp_path, proc_cwd, registered, temp_exists, fs,
                   written, net, log, pysvn_version, src_path, rejected,
                   checked, setup_py, rewrites, config_args, cmds, retcode,
                   env>>

\* lines 414-415
GivenVersion ==
    /\ pc = "resolve"
    /\ UsesGivenVersion(args)
    /\ pysvn_version' = args.pysvn_version
    /\ pc' = "download"
    /\ UNCHANGED <<args, cwd, temp_path, proc_cwd, registered, temp_exists, fs,
                   written, net, log, tarball_path, src_path, rejected,
                   checked, setup_py, rewrites, config_args, cmds, retcode,
                   stderr, failed, exit_code, env>>

\* faulty variant: no remap
Remap_Identity(v) == v

\* lines 420-421
Remap(v) == IF v = RemappedFrom THEN RemappedTo ELSE v

\* lines 417-423 with get_pysvn_version(): one GET of the feed, then the
\* search for VERSION_RE in what it returned
LookupVersion ==
    /\ pc = "resolve"
    /\ ~UsesLocalFile(args) /\ ~UsesGivenVersion(args)
    /\ log' = Append(log, "resolve")
    /\ \E feed \in {"urlerror", "nomatch"} \cup Versions :
         /\ net' = Append(net, <<"feed", feed>>)
         /\ IF feed = "urlerror"
            THEN Die("feed_error") /\ UNCHANGED pysvn_version
            ELSE IF feed = "nomatch"
            THEN Die("no_version") /\ UNCHANGED pysvn_version
            ELSE /\ pysvn_version' = Remap(feed)
                 /\ pc' = "download"
                 /\ UNCHANGED <<stderr, failed, exit_code>>
    /\ UNCHANGED <<args, cwd, temp_path, proc_cwd, registered, temp_exists, fs,
                   written, tarball_path, src_path, rejected, checked,
                   setup_py, rewrites, config_args, cmds, retcode, env>>

\* lines 425-426 with fetch_pysvn(pysvn_version)
Fetch ==
    /\ pc = "download"
    /\ net' = Append(net, <<"download", pysvn_version>>)
    /\ log' = Append(log, "download")
    /\ \E ok \in BOOLEAN :
         IF ok
         THEN /\ tarball_path' = PathJoin(temp_path, TarballName)
              /\ fs' = fs \cup {PathJoin(temp_path, TarballName)}
              /\ written' = written \cup {PathJoin(temp_path, TarballName)}
              /\ pc' = "extract"
              /\ UNCHANGED <<stderr, failed, exit_code>>
         ELSE /\ Die("fetch_error")
              /\ UNCHANGED <<tarball_path, fs, written>>
    /\ UNCHANGED <<args, cwd, temp_path, proc_cwd, registered, temp_exists,
                   pysvn_version, src_path, rejected, checked, setup_py,
                   rewrites, config_args, cmds, retcode, env>>

(***************************************************************************)
(* extract_pysvn(tarball_path), lines 107-135                              *)
(***************************************************************************)
\* the content an extracted setup.py can have
SetupContents(files) ==
    IF \E f \in files : Components(f)[Len(Components(f))] = <<"s">>
    THEN {"marker", "nomarker"} ELSE {"absent"}

Extract ==
    /\ pc = "extract"
    /\ log' = Append(log, "extract")
    /\ \E readable \in BOOLEAN, members \in Archives :
         IF ~readable
         THEN \* tarfile.open raises ReadError
              /\ members = <<>>
              /\ Raise
              /\ UNCHANGED <<fs, written, rejected, checked, src_path, setup_py>>
         ELSE LET r == safe_extract(proc_cwd, temp_path, members)
                  after == fs \cup r.files
                  found == Glob(after, temp_path, "p")
              IN /\ fs' = after
                 /\ written' = written \cup r.files
                 /\ rejected' = r.raised
                 /\ checked' = r.checked
                 /\ \E content \in SetupContents(r.files) : setup_py' = content
                 /\ IF r.raised
                    THEN Raise /\ UNCHANGED src_path
                    ELSE IF found = {}
                    THEN Die("no_pysvn_dir") /\ UNCHANGED src_path
                    ELSE /\ \E d \in found : src_path' = d
                         /\ pc' = "build"
                         /\ UNCHANGED <<stderr, failed, exit_code>>
    /\ UNCHANGED <<args, cwd, temp_path, proc_cwd, registered, temp_exists, net,
                   pysvn_version, tarball_path, rewrites, config_args, cmds,
                   retcode, env>>

(***************************************************************************)
(* build_pysvn(src_path, install), lines 195-379                           *)
(***************************************************************************)
\* faulty variant: patch whatever setup.py holds
Patchable_Always(content) == TRUE

\* line 225: "config_token in setup_py"
Patchable(content) == content = "marker"

\* lines 364-366: setup_py.replace(config_token, ...) changes a setup.py that
\* holds the token and leaves any other as it is
Replaced(content) == IF content = "marker" THEN "patched" ELSE content

\* lines 196-369: everything up to and including the rewrite of setup.py
PatchSetup ==
    /\ pc = "build"
    /\ log' = Append(log, "patch")
    /\ proc_cwd' = src_path
    /\ LET import_path == PathJoin(src_path, <<"I">>)
           pycxx == Glob(fs, import_path, "c")
           setup_py_path == PathJoin(src_path, <<"s">>)
       IN IF pycxx = {}
          THEN Die("no_pycxx") /\ UNCHANGED <<setup_py, rewrites, config_args>>
          ELSE IF setup_py_path \notin fs
          THEN \* open(setup_py_path, 'r') raises
               Raise /\ UNCHANGED <<setup_py, rewrites, config_args>>
          ELSE IF ~Patchable(setup_py)
          THEN Die("unpatchable") /\ UNCHANGED <<setup_py, rewrites, config_args>>
          ELSE \E e \in Envs, d \in pycxx :
                 IF EnvRaises(e)
                 THEN Raise /\ UNCHANGED <<setup_py, rewrites, config_args>>
                 ELSE /\ config_args' = ConfigArgs(e, PathJoin(import_path, d))
                      /\ setup_py' = Replaced(setup_py)
                      /\ rewrites' = rewrites + 1
                      /\ pc' = "run"
                      /\ UNCHANGED <<stderr, failed, exit_code>>
    /\ UNCHANGED <<args, cwd, temp_path, registered, temp_exists, fs, written,
                   net, pysvn_version, tarball_path, src_path, rejected,
                   checked, cmds, retcode, env>>

\* faulty variant: the wheel goes to the directory the process is in
BuildCommand_InPlace(install, source, dist_dir) ==
    IF install THEN <<"-m", "pip", "install", source>>
    ELSE <<"setup.py", "bdist_wheel", "--dist-dir", source>>

\* lines 371-374
BuildCommand(install, source, dist_dir) ==
    IF install THEN <<"-m", "pip", "install", source>>
    ELSE <<"setup.py", "bdist_wheel", "--dist-dir", dist_dir>>

\* lines 371-379: the build/install subprocess and its exit code
RunBuild ==
    /\ pc = "run"
    /\ log' = Append(log, "build")
    /\ cmds' = Append(cmds, BuildCommand(~args.build_only, src_path, cwd))
    /\ \E result \in 0..MaxRetcode : retcode' = result
    /\ pc' = "report"
    /\ UNCHANGED <<args, cwd, temp_path, proc_cwd, registered, temp_exists, fs,
                   written, net, pysvn_version, tarball_path, src_path,
                   rejected, checked, setup_py, rewrites, config_args, stderr,
                   failed, exit_code, env>>

(***************************************************************************)
(* main(), lines 432-477                                                   *)
(***************************************************************************)
\* faulty variant: the subprocess's exit code is handed on
ReportStatus_Propagate(result) == result

\* the status main() ends with for a given retcode
ReportStatus(result) == IF result = 0 THEN 0 ELSE 1

Report ==
    /\ pc = "report"
    /\ log' = Append(log, "report")
    /\ exit_code' = ReportStatus(retcode)
    /\ failed' = (retcode /= 0)
    /\ stderr' = (IF retcode = 0 THEN stderr ELSE stderr \cup {"build_failed"})
    /\ pc' = "atexit"
    /\ UNCHANGED <<args, cwd, temp_path, proc_cwd, registered, temp_exists, fs,
                   written, net, pysvn_version, tarball_path, src_path,
                   rejected, checked, setup_py, rewrites, config_args, cmds,
                   retcode, env>>

(***************************************************************************)
(* Interpreter shutdown: the atexit hooks                                  *)
(***************************************************************************)
\* faulty variant: clean up only after a successful run
HooksRun_OnSuccess(reg, status) == reg /\ status = 0

\* line 405: a hook registered with atexit runs at interpreter shutdown,
\* after sys.exit() and after an uncaught exception alike
HooksRun(reg, status) == reg

\* destroy_temp(), lines 61-62
destroy_temp(files) == RmTree(files, temp_path)

AtExit ==
    /\ pc = "atexit"
    /\ IF HooksRun(registered, exit_code)
       THEN /\ fs' = destroy_temp(fs)
            /\ temp_exists' = FALSE
       ELSE UNCHANGED <<fs, temp_exists>>
    /\ pc' = "exited"
    /\ UNCHANGED <<args, cwd, temp_path, proc_cwd, registered, written, net,
                   log, pysvn_version, tarball_path, src_path, rejected,
                   checked, setup_py, rewrites, config_args, cmds, retcode,
                   stderr, failed, exit_code, env>>

Next ==
    \/ ParseArgs
    \/ MakeTemp
    \/ LocalFile
    \/ GivenVersion
    \/ LookupVersion
    \/ Fetch
    \/ Extract
    \/ PatchSetup
    \/ RunBuild
    \/ Report
    \/ AtExit

Spec == Init /\ [][Next]_vars

(***************************************************************************)
(* build_pysvn's choice of configure arguments, on its own: every          *)
(* environment in which the external tools start, and the arguments chosen *)
(***************************************************************************)
PycxxPath == PathJoin(PathJoin(PathJoin(TempDir, <<"p">>), <<"I">>), <<"c">>)

InitCfg ==
    /\ pc = "configure"
    /\ env \in {e \in Envs : ~EnvRaises(e)}
    /\ args = NoArgs
    /\ cwd = StartDir
    /\ temp_path = TempDir
    /\ proc_cwd = PathJoin(TempDir, <<"p">>)
    /\ registered = TRUE
    /\ temp_exists = TRUE
    /\ fs = {}
    /\ written = {}
    /\ net = <<>>
    /\ log = <<>>
    /\ pysvn_version = NoVersion
    /\ tarball_path = None
    /\ src_path = PathJoin(TempDir, <<"p">>)
    /\ rejected = FALSE
    /\ checked = 0
    /\ setup_py = "marker"
    /\ rewrites = 0
    /\ config_args = <<>>
    /\ cmds = <<>>
    /\ retcode = 0
    /\ stderr = {}
    /\ failed = FALSE
    /\ exit_code = 0

\* lines 230-362
Configure ==
    /\ pc = "configure"
    /\ config_args' = ConfigArgs(env, PycxxPath)
    /\ pc' = "configured"
    /\ UNCHANGED <<args, cwd, temp_path, proc_cwd, registered, temp_exists, fs,
                   written, net, log, pysvn_version, tarball_path, src_path,
                   rejected, checked, setup_py, rewrites, cmds, retcode,
                   stderr, failed, exit_code, env>>

NextCfg == Configure

SpecCfg == InitCfg /\ [][NextCfg]_vars

(***************************************************************************)
(* Properties                                                              *)
(***************************************************************************)
Exited == pc = "exited"
TempCreated == temp_path /= None
Built == cmds /= <<>>
DownloadedTarball == PathJoin(TempDir, TarballName)

\* C1: no archive makes the script write a file outside the temporary
\* directory: an archive with a member whose destination lies outside it,
\* a sibling directory sharing the name's prefix included, is rejected.
C1_NoWriteOutsideTemp ==
    \A f \in written : Under(TempDir, f)

\* C2: on every run that created the temporary directory, the directory and
\* everything below it is gone once the process has exited, whatever the
\* exit path: success, sys.exit(1), or the guard's uncaught exception.
C2_TempRemovedAtExit ==
    (Exited /\ TempCreated) =>
        /\ ~temp_exists
        /\ \A f \in fs : ~Under(TempDir, f)

\* a run the guard ended with an exception, after a download, has exited
C2_Witness ==
    /\ Exited /\ TempCreated /\ rejected
    /\ DownloadedTarball \in written
    /\ ~temp_exists

\* C3: with a local archive path given, no network operation is performed in
\* the run: no feed GET and no download, with or without a version override,
\* whether or not the file exists.
C3_LocalFileNoNetwork ==
    args.file /= None => net = <<>>

\* a run with a local file and a version override has built and exited
C3_Witness ==
    /\ Exited /\ Built
    /\ args.file /= None /\ args.pysvn_version /= NoVersion

\* the diagnostics of the failures the exit-code contract lists
ListedFailures == {"feed_error", "no_version", "fetch_error", "no_tarball",
                   "no_pysvn_dir", "no_pycxx", "unpatchable", "build_failed"}

\* C4 as stated: the exit code is 0 exactly when the build/install
\* subprocess was run and returned 0, and 1 on every listed failure.
C4_ExitZeroIffBuildSucceeded ==
    Exited =>
        /\ exit_code = 0 <=> (Built /\ retcode = 0)
        /\ stderr \cap ListedFailures /= {} => exit_code = 1

\* C4 amended: on every run in which parse_args returned, the exit code is 0
\* exactly when the build/install subprocess was run and returned 0, and it
\* is 1 otherwise, whatever non-zero code the subprocess returned.
C4_ExitCodeAfterParsing ==
    (Exited /\ TempCreated) =>
        /\ exit_code = 0 <=> (Built /\ retcode = 0)
        /\ exit_code /= 0 => exit_code = 1
        /\ stderr \cap ListedFailures /= {} => exit_code = 1

\* the subprocess returned a code other than 0 and 1, and the run has exited
C4_Witness ==
    Exited /\ Built /\ retcode > 1 /\ exit_code = 1

\* C5: in build-only mode the only build command run is
\* 'setup.py bdist_wheel --dist-dir <start-up working directory>', never
\* 'pip install'; with build-only off, bdist_wheel is never run.
C5_BuildOnlyCommand ==
    \A i \in 1..Len(cmds) :
        IF args.build_only
        THEN cmds[i] = <<"setup.py", "bdist_wheel", "--dist-dir", StartDir>>
        ELSE cmds[i] = <<"-m", "pip", "install", src_path>>

\* a build-only run has run its command after changing into the source tree
C5_Witness ==
    /\ args.build_only /\ Built
    /\ proc_cwd /= StartDir /\ Under(TempDir, proc_cwd)

\* the extracted tree has an Import/pycxx* entry
HasPycxx == Glob(written, PathJoin(src_path, <<"I">>), "c") /= {}

\* C6: when build_pysvn finds no Import/pycxx* entry, or a setup.py without
\* the marker, the process ends with exit code 1 after a diagnostic on
\* standard error; setup.py is never rewritten and no build command is run.
C6_PreconditionFailure ==
    ("patch" \in SeqRange(log) /\ (~HasPycxx \/ setup_py = "nomarker")) =>
        /\ pc \in {"atexit", "exited"}
        /\ exit_code = 1
        /\ stderr \cap {"no_pycxx", "unpatchable"} /= {}
        /\ rewrites = 0
        /\ ~Built

\* build_pysvn has met a setup.py without the marker, next to a pycxx entry
C6_Witness ==
    /\ "patch" \in SeqRange(log)
    /\ HasPycxx /\ setup_py = "nomarker"
    /\ Exited

\* C7: when the guard rejects an archive, no member of it has been
\* extracted, the members listed before the offending one included.
C7_RejectionExtractsNothing ==
    rejected => written \subseteq {DownloadedTarball}

\* the guard raised on a member that is not the first of its archive
C7_Witness ==
    rejected /\ checked > 1

StepOrder == <<"resolve", "download", "extract", "patch", "build", "report">>
Rank(step) == CHOOSE i \in 1..Len(StepOrder) : StepOrder[i] = step
NetOps(kind) == {i \in 1..Len(net) : net[i][1] = kind}

\* the steps taken so far are in the fixed order, each at most once, and the
\* build command was run only after setup.py was rewritten with the patch
C8_InOrderOnce ==
    /\ \A i, j \in 1..Len(log) : i < j => Rank(log[i]) < Rank(log[j])
    /\ Cardinality(NetOps("feed")) <= 1
    /\ Cardinality(NetOps("download")) <= 1
    /\ Len(cmds) <= 1
    /\ Built => (rewrites = 1 /\ setup_py = "patched"
                 /\ Len(config_args) > 0 /\ "patch" \in SeqRange(log))

\* C8: the steps run in the order resolve, download, extract, patch, build,
\* report, each at most once and without retry; the build command runs
\* only after setup.py was rewritten; after a failed step no step runs.
C8_FixedOrderNoRetry ==
    /\ []C8_InOrderOnce
    /\ [][failed => (log' = log /\ net' = net /\ cmds' = cmds
                     /\ rewrites' = rewrites /\ written' = written)]_vars

\* a run that looked the version up has gone through all six steps
C8_Witness ==
    Exited /\ log = StepOrder

\* C9: a version found in the feed is remapped from 1.9.13 to 1.9.12 before
\* the download, so 1.9.13 is never requested for it; a version given
\* explicitly is requested as given, 1.9.13 included, without a feed GET.
C9_RemapOnlyFromFeed ==
    \A i \in NetOps("download") :
        IF args.pysvn_version /= NoVersion
        THEN /\ net[i][2] = args.pysvn_version
             /\ NetOps("feed") = {}
        ELSE /\ i = 2 /\ net[1][1] = "feed"
             /\ net[i][2] /= RemappedFrom
             /\ net[i][2] = (IF net[1][2] = RemappedFrom THEN RemappedTo
                             ELSE net[1][2])

\* the feed gave 1.9.13 and the download asked for 1.9.12
C9_Witness ==
    net = << <<"feed", RemappedFrom>>, <<"download", RemappedTo>> >>

FlagsOf(kind) == SelectSeq(config_args, LAMBDA a : a[1] = kind)
AprToolPresent == HasAprConfig(env, PlatformPaths(env))
ApuToolPresent == HasApuConfig(env, PlatformPaths(env))
LibAprName == PlatformPaths(env).libapr_filename

\* C10: on every platform branch, when the apr-1-config / apu-1-config tool
\* exists and the path it reports holds the required file, that path is the
\* one emitted for --apr-inc-dir, --apr-lib-dir and --apu-inc-dir, and at
\* most one flag of each kind is emitted.
C10_ToolPathPreferred ==
    pc = "configured" =>
        /\ \A kind \in {"--apr-inc-dir", "--apr-lib-dir", "--apu-inc-dir"} :
              Len(FlagsOf(kind)) <= 1
        /\ (AprToolPresent /\ (AprIncludedir \o <<"apr.h">>) \in env.exists) =>
              FlagsOf("--apr-inc-dir") = << <<"--apr-inc-dir", AprIncludedir>> >>
        /\ (AprToolPresent /\ LibAprName /= ""
              /\ (AprPrefix \o <<"lib", LibAprName>>) \in env.exists) =>
              FlagsOf("--apr-lib-dir") =
                  << <<"--apr-lib-dir", AprPrefix \o <<"lib">> >> >>
        /\ (ApuToolPresent /\ (ApuIncludedir \o <<"apu.h">>) \in env.exists) =>
              FlagsOf("--apu-inc-dir") = << <<"--apu-inc-dir", ApuIncludedir>> >>

\* the tool's include directory and another candidate both hold apr.h
C10_Witness ==
    /\ pc = "configured"
    /\ AprToolPresent
    /\ (AprIncludedir \o <<"apr.h">>) \in env.exists
    /\ (XcodeAprPath \o <<"apr.h">>) \in env.exists
    /\ FlagsOf("--apr-inc-dir") = << <<"--apr-inc-dir", AprIncludedir>> >>

====
